---- MODULE Spec2Model ----
(***************************************************************************)
(* Model of src/data/generate_healthcare_data.py: the claim generator      *)
(* (record loop, anomaly injection, calculated fields), the provider       *)
(* generator and main().                                                   *)
(*                                                                         *)
(* Fixed point.  Money is counted in ticks of 1/10000 dollar (one cent is  *)
(* 100 ticks), standard normal deviates and uniform factors in 1/10000,    *)
(* coverage rates and sampling weights in 1/100.                           *)
(*                                                                         *)
(* Random streams.  np.random and random are seeded once, at import, with  *)
(* 42 (lines 15-16).  What a seeded generator returns at a position of its *)
(* stream is fixed but lies outside the repository: the outputs the record *)
(* loop reads are an input chosen in Init (np_stream, py_stream, read      *)
(* cyclically from np_pos, py_pos), the outputs the anomaly phase reads    *)
(* are chosen when they are read.  The wall clock is an input as well: the *)
(* date datetime.now() returns rolls over after clock.midnight_after reads.*)
(***************************************************************************)
EXTENDS Integers, Sequences, FiniteSets, TLC

VARIABLES
    pc,               \* where the process is
    caller,           \* "main" (main() runs) or "api" (a client calls the generator)
    requests,         \* num_records argument of each call the process will make
    num_providers,    \* argument of generate_provider_data
    np_stream,        \* outputs of numpy's global generator, seed 42
    py_stream,        \* outputs of random's global generator, seed 42
    np_pos,           \* outputs of np_stream consumed so far
    py_pos,           \* outputs of py_stream consumed so far
    clock,            \* [day, reads, midnight_after]: the wall clock
    num_records,      \* argument of the running generate_healthcare_data call
    i,                \* index of the record loop (line 58)
    data,             \* the list of dicts built by the record loop
    df,               \* the DataFrame (line 126 on)
    anomaly_indices,  \* line 130
    a_pos,            \* entries of anomaly_indices already processed (line 134)
    anomaly_log,      \* the archetype drawn for each processed index, in order
    returned,         \* the tables returned by the completed calls, in order
    providers,        \* the list built by generate_provider_data
    files,            \* the CSV files written by main()
    error             \* the exception that ended the process, or "none"

vars == <<pc, caller, requests, num_providers, np_stream, py_stream, np_pos,
          py_pos, clock, num_records, i, data, df, anomaly_indices, a_pos,
          anomaly_log, returned, providers, files, error>>

----------------------------------------------------------------------------
(* Units *)

\* ticks in one dollar
Dollar == 10000

\* ticks in one cent
Cent == 100

\* denominator of standard normal deviates and of uniform [0,1) outputs
Unit == 10000

\* denominator of weights and coverage rates
Hundred == 100

Max(a, b) == IF a >= b THEN a ELSE b

Min(a, b) == IF a <= b THEN a ELSE b

\* Python int(x) of the fixed-point number x / unit: truncation toward zero
IntTrunc(x, unit) == IF x >= 0 THEN x \div unit ELSE -((-x) \div unit)

RECURSIVE SumSeq(_)
SumSeq(s) == IF s = <<>> THEN 0 ELSE Head(s) + SumSeq(Tail(s))

\* the decimal digits of n >= 0, most significant first
RECURSIVE Digits(_)
Digits(n) == IF n < 10 THEN <<n>> ELSE Append(Digits(n \div 10), n % 10)

RECURSIVE ZeroPad(_, _)
ZeroPad(ds, width) == IF Len(ds) >= width THEN ds ELSE ZeroPad(<<0>> \o ds, width)

\* f"{prefix}{n:0{width}d}": the prefix and the decimal digits of n, padded with
\* zeros on the left to at least width digits (width 0: no padding)
FormatId(prefix, n, width) == [prefix |-> prefix, digits |-> ZeroPad(Digits(n), width)]

\* str < str on the digit part of two ids with the same prefix (lexicographic)
RECURSIVE DigitsLess(_, _)
DigitsLess(a, b) ==
    IF a = <<>> THEN b # <<>>
    ELSE IF b = <<>> THEN FALSE
    ELSE IF Head(a) # Head(b) THEN Head(a) < Head(b)
    ELSE DigitsLess(Tail(a), Tail(b))

----------------------------------------------------------------------------
(* Calendar: days are counted from 2024-01-01 (day 0) *)

IsLeap(y) == (y % 4 = 0 /\ y % 100 # 0) \/ y % 400 = 0

DaysInYear(y) == IF IsLeap(y) THEN 366 ELSE 365

DaysInMonth(y, m) ==
    IF m = 2 THEN (IF IsLeap(y) THEN 29 ELSE 28)
    ELSE IF m \in {4, 6, 9, 11} THEN 30 ELSE 31

RECURSIVE DateFrom(_, _, _)
DateFrom(y, m, d) ==
    IF d >= DaysInYear(y) /\ m = 1 THEN DateFrom(y + 1, 1, d - DaysInYear(y))
    ELSE IF d >= DaysInMonth(y, m) THEN DateFrom(y, m + 1, d - DaysInMonth(y, m))
    ELSE [year |-> y, month |-> m, day |-> d + 1]

\* service_date.strftime('%Y-%m-%d') of the date `day` days after 2024-01-01
Strftime(day) == DateFrom(2024, 1, day)

----------------------------------------------------------------------------
(* Registry (lines 27-53, 101-104): frequencies and coverage rates in 1/100 *)

procedures == <<
    [name |-> "Emergency Room Visit", base_cost |-> 1200,  variance |-> 400,  frequency |-> 15],
    [name |-> "Routine Checkup",      base_cost |-> 250,   variance |-> 50,   frequency |-> 25],
    [name |-> "Blood Test",           base_cost |-> 150,   variance |-> 30,   frequency |-> 20],
    [name |-> "X-Ray",                base_cost |-> 300,   variance |-> 75,   frequency |-> 12],
    [name |-> "MRI Scan",             base_cost |-> 2500,  variance |-> 500,  frequency |-> 5],
    [name |-> "CT Scan",              base_cost |-> 1800,  variance |-> 300,  frequency |-> 8],
    [name |-> "Surgery - Minor",      base_cost |-> 5000,  variance |-> 1000, frequency |-> 4],
    [name |-> "Surgery - Major",      base_cost |-> 25000, variance |-> 8000, frequency |-> 2],
    [name |-> "Physical Therapy",     base_cost |-> 180,   variance |-> 40,   frequency |-> 9] >>

insurance_providers == <<
    [name |-> "BlueCross BlueShield", coverage_rate |-> 80, frequency |-> 25],
    [name |-> "Aetna",                coverage_rate |-> 75, frequency |-> 20],
    [name |-> "UnitedHealth",         coverage_rate |-> 82, frequency |-> 22],
    [name |-> "Cigna",                coverage_rate |-> 78, frequency |-> 15],
    [name |-> "Medicare",             coverage_rate |-> 85, frequency |-> 10],
    [name |-> "Medicaid",             coverage_rate |-> 90, frequency |-> 8] >>

departments == <<
    "Emergency Medicine", "Internal Medicine", "Cardiology", "Orthopedics",
    "Radiology", "Surgery", "Pediatrics", "Neurology", "Oncology", "Psychiatry" >>

diagnosis_codes == <<
    "Z00.00", "I10", "E11.9", "M79.1", "R53.83", "K21.9",
    "F41.1", "M25.511", "N39.0", "R50.9", "H52.4", "J06.9" >>

\* faulty variant of claim_statuses: the weights add up to 1.05
claim_statuses_overweight == << [name |-> "Paid", frequency |-> 85],
                                [name |-> "Pending", frequency |-> 10],
                                [name |-> "Denied", frequency |-> 10] >>

claim_statuses == << [name |-> "Paid", frequency |-> 85],
                     [name |-> "Pending", frequency |-> 10],
                     [name |-> "Denied", frequency |-> 5] >>

admission_types == << [name |-> "Outpatient", frequency |-> 70],
                      [name |-> "Inpatient", frequency |-> 20],
                      [name |-> "Emergency", frequency |-> 10] >>

anomaly_types == << "billing_error", "duplicate_claim", "unusual_cost", "fraud_indicator" >>

\* faulty variant of ContainsRoutine: the test of line 152 is left out
ContainsRoutineAlways(name) == TRUE

\* 'Routine' in procedure_name (line 152), over the names a record can carry
ContainsRoutine(name) == name = "Routine Checkup"

----------------------------------------------------------------------------
(* The library draws, as functions of the raw output `raw` of the stream *)

Frequencies(table) == [j \in 1..Len(table) |-> table[j].frequency]

\* np.random.choice(names, p=weights): the cumulative weights are normalised by
\* their total and searched (side='right') for u = (raw % 100) / 100
WeightedIndex(weights, raw) ==
    LET total == SumSeq(weights)
        u == raw % Hundred
        cdf(j) == SumSeq(SubSeq(weights, 1, j))
    IN  1 + Cardinality({j \in 1..Len(weights) : cdf(j) * Hundred <= u * total})

WeightedChoice(table, raw) == table[WeightedIndex(Frequencies(table), raw)]

\* np.random.normal(loc, scale) in 1/Unit: loc + scale * z, z the standard deviate raw / Unit
Normal(loc, scale, raw) == loc * Unit + scale * raw

\* np.random.uniform(low, high), low and high in 1/unit: a value of [low, high)
Uniform(low, high, raw) == low + (raw % (high - low))

\* np.random.random() in 1/Unit: a value of [0, 1)
RandomSample(raw) == raw % Unit

\* random.randint(a, b): an integer of a..b
RandInt(a, b, raw) == a + (raw % (b - a + 1))

\* random.choice(seq), np.random.choice(seq) without weights
UniformChoice(seq, raw) == seq[(raw % Len(seq)) + 1]

----------------------------------------------------------------------------
(* Rounding and the cost calculation (lines 85-88, 118-120) *)

\* round(x, 2) of x = whole + frac / 1000000 ticks (0 <= frac < 1000000), in
\* ticks: the nearest cent, an exact half going to the even cent
RoundCents(whole, frac) ==
    LET c == whole \div Cent
        r == whole % Cent
        half == Cent \div 2
        up == \/ r > half
              \/ r = half /\ frac > 0
              \/ r = half /\ frac = 0 /\ c % 2 = 1
    IN  (IF up THEN c + 1 ELSE c) * Cent

\* total_billed * coverage_rate * multiplier, exactly: billed in ticks,
\* coverage_rate in 1/100, multiplier in 1/10000; the product is
\* whole + frac / 1000000 ticks.  The factors are split in thousands so that no
\* intermediate product leaves the 32-bit integers of TLC.
InsurancePaid(billed, coverage_rate, multiplier) ==
    LET k   == coverage_rate * multiplier
        bh  == billed \div 1000
        bl  == billed % 1000
        kh  == k \div 1000
        kl  == k % 1000
        mid == bh * kl + bl * kh
        low == (mid % 1000) * 1000 + bl * kl
    IN  [whole |-> bh * kh + (mid \div 1000) + (low \div 1000000),
         frac  |-> low % 1000000]

\* faulty variant of PatientResponsibility: the operands of line 88 are swapped
PatientResponsibilityReversed(billed, paid) ==
    [whole |-> paid.whole - billed, frac |-> paid.frac]

\* total_billed - insurance_paid, exactly
PatientResponsibility(billed, paid) ==
    IF paid.frac = 0 THEN [whole |-> billed - paid.whole, frac |-> 0]
    ELSE [whole |-> billed - paid.whole - 1, frac |-> 1000000 - paid.frac]

----------------------------------------------------------------------------
(* Reading the streams and the clock *)

\* the k-th output (k = 0, 1, ...) the running step reads from numpy's stream
NpAt(k) == np_stream[((np_pos + k) % Len(np_stream)) + 1]

\* the k-th output the running step reads from random's stream
PyAt(k) == py_stream[((py_pos + k) % Len(py_stream)) + 1]

\* the date of datetime.now(), in days from 2024-01-01
Today == clock.day + (IF clock.reads >= clock.midnight_after THEN 1 ELSE 0)

----------------------------------------------------------------------------
(* One iteration of the record loop (lines 58-124) *)

\* days of the window (line 91)
WindowDays == 730

\* faulty variant of PatientAge: the clamp of line 62 is left out
PatientAgeUnclamped(raw) == IntTrunc(Normal(45, 18, raw), Unit)

\* lines 61-62
PatientAge(raw) == Max(1, Min(95, IntTrunc(Normal(45, 18, raw), Unit)))

\* faulty variant of BaseCost: the floor of line 76 is left out
BaseCostUnfloored(procedure_info, raw) ==
    Normal(procedure_info.base_cost, procedure_info.variance, raw)

\* lines 72-76, in ticks
BaseCost(procedure_info, raw) ==
    Max(50 * Dollar, Normal(procedure_info.base_cost, procedure_info.variance, raw))

\* line 87: np.random.uniform(0.85, 1.0), in 1/10000
Multiplier(raw) == Uniform(8500, 10000, raw)

\* lines 91-92, 111: the service date, in days from 2024-01-01
ServiceDay(today, raw) == (today - WindowDays) + RandInt(0, WindowDays, raw)

\* line 123: the np.random.random() output decides whether random.randint is called
MultiDay(raw) == RandomSample(raw) < 3000

\* faulty variant of LengthOfStay: a stay that is not a multi-day one is stored as 0
LengthOfStayZeroDefault(np_raw, py_raw) ==
    IF MultiDay(np_raw) THEN RandInt(1, 15, py_raw) ELSE 0

LengthOfStay(np_raw, py_raw) == IF MultiDay(np_raw) THEN RandInt(1, 15, py_raw) ELSE 1

\* the three amounts as stored (lines 118-120): each is rounded on its own
StoredBilled(total_billed) == RoundCents(total_billed, 0)

StoredPaid(insurance_paid) == RoundCents(insurance_paid.whole, insurance_paid.frac)

StoredResponsibility(patient_responsibility) ==
    RoundCents(patient_responsibility.whole, patient_responsibility.frac)

\* the dict appended by iteration idx (lines 107-124), from the outputs the
\* iteration reads: np_raw[0..7] in the order of lines 61, 65, 72, 79, 87, 121,
\* 122, 123 and py_raw[0..5] in the order of lines 92, 95, 98, 105, 113, 123
MakeRecord(idx, today, np_raw, py_raw) ==
    LET procedure_info == WeightedChoice(procedures, np_raw[1])
        total_billed   == BaseCost(procedure_info, np_raw[2])
        insurance      == WeightedChoice(insurance_providers, np_raw[3])
        insurance_paid == InsurancePaid(total_billed, insurance.coverage_rate,
                                        Multiplier(np_raw[4]))
        patient_responsibility == PatientResponsibility(total_billed, insurance_paid)
    IN  [ claim_id               |-> FormatId("CLM", 20240000 + idx, 8),
          patient_id             |-> FormatId("P", 10000 + idx, 6),
          patient_age            |-> PatientAge(np_raw[0]),
          service_date           |-> Strftime(ServiceDay(today, py_raw[0])),
          procedure_name         |-> procedure_info.name,
          procedure_code         |-> FormatId("CPT", RandInt(10000, 99999, py_raw[4]), 0),
          primary_diagnosis      |-> UniformChoice(diagnosis_codes, py_raw[3]),
          department             |-> UniformChoice(departments, py_raw[1]),
          provider_id            |-> FormatId("DR", RandInt(1000, 9999, py_raw[2]), 0),
          insurance_provider     |-> insurance.name,
          total_billed_amount    |-> StoredBilled(total_billed),
          insurance_paid_amount  |-> StoredPaid(insurance_paid),
          patient_responsibility |-> StoredResponsibility(patient_responsibility),
          claim_status           |-> WeightedChoice(claim_statuses, np_raw[5]).name,
          admission_type         |-> WeightedChoice(admission_types, np_raw[6]).name,
          length_of_stay         |-> LengthOfStay(np_raw[7], py_raw[5]) ]

\* outputs one iteration takes from each stream
NpPerRecord == 8

PyPerRecord(np_raw) == IF MultiDay(np_raw) THEN 6 ELSE 5

\* the client, or main() at line 206, calls generate_healthcare_data
CallGenerate ==
    /\ pc = "idle"
    /\ Len(returned) < Len(requests)
    /\ pc' = "record_loop"
    /\ num_records' = requests[Len(returned) + 1]
    /\ i' = 0
    /\ data' = <<>>
    /\ df' = <<>>
    /\ anomaly_indices' = <<>>
    /\ a_pos' = 0
    /\ anomaly_log' = <<>>
    /\ UNCHANGED <<caller, requests, num_providers, np_stream, py_stream, np_pos,
                   py_pos, clock, returned, providers, files, error>>

\* one iteration of `for i in range(num_records)`
GenerateRecord ==
    /\ pc = "record_loop"
    /\ i < num_records
    /\ data' = Append(data, MakeRecord(i, Today, [k \in 0..7 |-> NpAt(k)],
                                        [k \in 0..5 |-> PyAt(k)]))
    /\ np_pos' = np_pos + NpPerRecord
    /\ py_pos' = py_pos + PyPerRecord(NpAt(7))
    /\ clock' = [clock EXCEPT !.reads = @ + 1]
    /\ i' = i + 1
    /\ UNCHANGED <<pc, caller, requests, num_providers, np_stream, py_stream,
                   num_records, df, anomaly_indices, a_pos, anomaly_log, returned,
                   providers, files, error>>

----------------------------------------------------------------------------
(* Anomaly injection (lines 126-158) *)

\* line 129: int(num_records * 0.05); the double product truncates to the same
\* integer as the exact one for every count up to 200000
AnomalyCount(n) == IntTrunc(n * 5, Hundred)

\* df.index of a frame of n rows
RangeIndex(n) == [j \in 1..n |-> j - 1]

RemoveAt(s, j) == SubSeq(s, 1, j - 1) \o SubSeq(s, j + 1, Len(s))

\* faulty variant of SampleWithoutReplacement: replace=True, a drawn label stays in the index
RECURSIVE SampleWithReplacement(_, _)
SampleWithReplacement(remaining, raws) ==
    IF raws = <<>> THEN <<>>
    ELSE <<remaining[(Head(raws) % Len(remaining)) + 1]>>
             \o SampleWithReplacement(remaining, Tail(raws))

\* np.random.choice(index, size, replace=False): one element of what is left of
\* the index per output read
RECURSIVE SampleWithoutReplacement(_, _)
SampleWithoutReplacement(remaining, raws) ==
    IF raws = <<>> THEN <<>>
    ELSE LET j == (Head(raws) % Len(remaining)) + 1
         IN  <<remaining[j]>> \o SampleWithoutReplacement(RemoveAt(remaining, j), Tail(raws))

\* the stream outputs enumerated for the selection: the first two and the last
\* two positions of what is left of the index
SelectionRaws(n) == {0, 1, n - 2, n - 1}

\* the stream outputs enumerated for the archetype draw (line 135)
TypeRaws == 0..3

\* the stream outputs enumerated for the uniform draws of lines 141, 153, 158:
\* the low end and the top of each range
FactorRaws == {0, 499999999}

\* value * factor, factor in 1/100
Scale(value, factor) == (value \div Hundred) * factor + ((value % Hundred) * factor) \div Hundred

\* the row of label idx (labels start at 0)
Row(frame, idx) == frame[idx + 1]

\* lines 126-132
SelectAnomalies ==
    /\ pc = "record_loop"
    /\ i >= num_records
    /\ LET anomaly_count == AnomalyCount(num_records)
       IN  /\ anomaly_count >= 0
           /\ \E raws \in [1..anomaly_count -> SelectionRaws(num_records)] :
                  anomaly_indices' = SampleWithoutReplacement(RangeIndex(Len(data)), raws)
           /\ np_pos' = np_pos + anomaly_count
    /\ df' = data
    /\ a_pos' = 0
    /\ pc' = "anomaly_loop"
    /\ UNCHANGED <<caller, requests, num_providers, np_stream, py_stream, py_pos,
                   clock, num_records, i, data, anomaly_log, returned, providers,
                   files, error>>

\* line 130 when anomaly_count is negative (num_records <= -20): the index is
\* empty and the size is not 0, so np.random.choice raises ValueError
SelectionValueError ==
    /\ pc = "record_loop"
    /\ i >= num_records
    /\ AnomalyCount(num_records) < 0
    /\ df' = data
    /\ error' = "ValueError"
    /\ pc' = "raised"
    /\ UNCHANGED <<caller, requests, num_providers, np_stream, py_stream, np_pos,
                   py_pos, clock, num_records, i, data, anomaly_indices, a_pos,
                   anomaly_log, returned, providers, files>>

\* faulty variant of BillingError: patient_responsibility is recomputed from the
\* new billed amount
BillingErrorRecomputed(idx, raw) ==
    LET billed == Scale(Row(df, idx).total_billed_amount, Uniform(200, 500, raw))
    IN  [df EXCEPT ![idx + 1].total_billed_amount = billed,
                   ![idx + 1].patient_responsibility =
                       billed - Row(df, idx).insurance_paid_amount]

\* faulty variant of BillingError: the row label is left out, the whole column is
\* multiplied
BillingErrorWholeColumn(idx, raw) ==
    [j \in 1..Len(df) |->
        [df[j] EXCEPT !.total_billed_amount = Scale(@, Uniform(200, 500, raw))]]

\* faulty variant of BillingError: the factor grows with the position in the loop
BillingErrorByPosition(idx, raw) ==
    [df EXCEPT ![idx + 1].total_billed_amount =
                   Scale(@, Uniform(200, 500, raw) + Hundred * a_pos)]

\* faulty variant of BillingError: the factor is drawn from [0.0, 5.0)
BillingErrorFromZero(idx, raw) ==
    [df EXCEPT ![idx + 1].total_billed_amount = Scale(@, Uniform(0, 500, raw))]

\* lines 139-141
BillingError(idx, raw) ==
    [df EXCEPT ![idx + 1].total_billed_amount = Scale(@, Uniform(200, 500, raw))]

\* faulty variant of DuplicateClaim: the whole row is copied onto the successor
DuplicateWholeRow(idx) ==
    IF idx < Len(df) - 1 THEN [df EXCEPT ![idx + 2] = Row(df, idx)] ELSE df

\* faulty variant of DuplicateClaim: the guard of line 145 is left out, and df.loc on the
\* label one past the end enlarges the frame by a row
DuplicateClaimUnguarded(idx) ==
    IF idx < Len(df) - 1
    THEN [df EXCEPT ![idx + 2].patient_id = Row(df, idx).patient_id,
                    ![idx + 2].procedure_name = Row(df, idx).procedure_name,
                    ![idx + 2].service_date = Row(df, idx).service_date]
    ELSE Append(df, Row(df, idx))

\* faulty variant of DuplicateClaim: the billed amount is copied too
DuplicateClaimCopiesAmount(idx) ==
    IF idx < Len(df) - 1
    THEN [df EXCEPT ![idx + 2].patient_id = Row(df, idx).patient_id,
                    ![idx + 2].procedure_name = Row(df, idx).procedure_name,
                    ![idx + 2].service_date = Row(df, idx).service_date,
                    ![idx + 2].total_billed_amount = Row(df, idx).total_billed_amount]
    ELSE df

\* faulty variant of DuplicateClaim: the copy goes from the successor to the
\* selected record
DuplicateClaimReversed(idx) ==
    IF idx < Len(df) - 1
    THEN [df EXCEPT ![idx + 1].patient_id = Row(df, idx + 1).patient_id,
                    ![idx + 1].procedure_name = Row(df, idx + 1).procedure_name,
                    ![idx + 1].service_date = Row(df, idx + 1).service_date]
    ELSE df

\* faulty variant of DuplicateClaim: line 148 is left out, the date is kept
DuplicateClaimKeepsDate(idx) ==
    IF idx < Len(df) - 1
    THEN [df EXCEPT ![idx + 2].patient_id = Row(df, idx).patient_id,
                    ![idx + 2].procedure_name = Row(df, idx).procedure_name]
    ELSE df

\* faulty variant of DuplicateClaim: nothing is written
DuplicateClaimNoEffect(idx) == df

\* lines 143-148
DuplicateClaim(idx) ==
    IF idx < Len(df) - 1
    THEN [df EXCEPT ![idx + 2].patient_id = Row(df, idx).patient_id,
                    ![idx + 2].procedure_name = Row(df, idx).procedure_name,
                    ![idx + 2].service_date = Row(df, idx).service_date]
    ELSE df

\* faulty variant of UnusualCost: the paid amount is multiplied too
UnusualCostScalesPaid(idx, raw) ==
    [df EXCEPT ![idx + 1].total_billed_amount = Scale(@, Uniform(1000, 2000, raw)),
               ![idx + 1].insurance_paid_amount = Scale(@, Uniform(1000, 2000, raw))]

\* lines 150-153
UnusualCost(idx, raw) ==
    [df EXCEPT ![idx + 1].total_billed_amount = Scale(@, Uniform(1000, 2000, raw))]

\* faulty variant of FraudIndicator: line 157 is left out, the name is kept
FraudIndicatorKeepsName(idx, raw) ==
    [df EXCEPT ![idx + 1].total_billed_amount = Uniform(50000 * Dollar, 100000 * Dollar, raw)]

\* lines 155-158
FraudIndicator(idx, raw) ==
    [df EXCEPT ![idx + 1].procedure_name = "Surgery - Major",
               ![idx + 1].total_billed_amount = Uniform(50000 * Dollar, 100000 * Dollar, raw)]

\* what one iteration of the loop of line 134 leaves unchanged
AnomalyFrame ==
    UNCHANGED <<pc, caller, requests, num_providers, np_stream, py_stream, py_pos,
                clock, num_records, i, data, anomaly_indices, returned, providers,
                files, error>>

\* the entry the loop of line 134 adds to its history: the label, the archetype
\* drawn at line 135 and the output the uniform draw of line 141, 153 or 158
\* read (0 when the branch draws nothing)
LogEntry(idx, anomaly_type, raw) == [index |-> idx, type |-> anomaly_type, raw |-> raw]

\* one iteration of `for idx in anomaly_indices` (lines 134-158)
ApplyAnomaly ==
    /\ pc = "anomaly_loop"
    /\ a_pos < Len(anomaly_indices)
    /\ a_pos' = a_pos + 1
    /\ AnomalyFrame
    /\ \E type_raw \in TypeRaws :
         LET idx == anomaly_indices[a_pos + 1]
             anomaly_type == UniformChoice(anomaly_types, type_raw)
         IN  \/ /\ anomaly_type = "billing_error"
                /\ \E raw \in FactorRaws :
                       /\ df' = BillingError(idx, raw)
                       /\ anomaly_log' = Append(anomaly_log, LogEntry(idx, anomaly_type, raw))
                /\ np_pos' = np_pos + 2
             \/ /\ anomaly_type = "duplicate_claim"
                /\ df' = DuplicateClaim(idx)
                /\ anomaly_log' = Append(anomaly_log, LogEntry(idx, anomaly_type, 0))
                /\ np_pos' = np_pos + 1
             \/ /\ anomaly_type = "unusual_cost"
                /\ ContainsRoutine(Row(df, idx).procedure_name)
                /\ \E raw \in FactorRaws :
                       /\ df' = UnusualCost(idx, raw)
                       /\ anomaly_log' = Append(anomaly_log, LogEntry(idx, anomaly_type, raw))
                /\ np_pos' = np_pos + 2
             \/ /\ anomaly_type = "unusual_cost"
                /\ ~ContainsRoutine(Row(df, idx).procedure_name)
                /\ df' = df
                /\ anomaly_log' = Append(anomaly_log, LogEntry(idx, anomaly_type, 0))
                /\ np_pos' = np_pos + 1
             \/ /\ anomaly_type = "fraud_indicator"
                /\ \E raw \in FactorRaws :
                       /\ df' = FraudIndicator(idx, raw)
                       /\ anomaly_log' = Append(anomaly_log, LogEntry(idx, anomaly_type, raw))
                /\ np_pos' = np_pos + 2

----------------------------------------------------------------------------
(* Calculated fields and return (lines 160-166) *)

RECURSIVE GCD(_, _)
GCD(a, b) == IF b = 0 THEN a ELSE GCD(b, a % b)

\* a / b of two non-negative amounts, as a fraction in lowest terms; a zero
\* divisor gives pandas' inf (num 1) or NaN (num 0), not an exception
Divide(a, b) ==
    IF b = 0 THEN [num |-> IF a = 0 THEN 0 ELSE 1, den |-> 0]
    ELSE LET g == GCD(a, b) IN [num |-> a \div g, den |-> b \div g]

\* pd.to_datetime(service_date).dt.to_period('M').astype(str): 'YYYY-MM'
MonthYear(service_date) == [year |-> service_date.year, month |-> service_date.month]

\* lines 161-163 on one row
Calculated(row) ==
    [payment_rate |-> Divide(row.insurance_paid_amount, row.total_billed_amount),
     cost_per_day |-> Divide(row.total_billed_amount, row.length_of_stay * Dollar),
     month_year   |-> MonthYear(row.service_date)]

\* faulty variant of AddCalculatedFields: the fields are computed from the records
\* as they were before the anomaly loop
AddCalculatedFieldsFromList(frame) ==
    [j \in 1..Len(frame) |-> frame[j] @@ Calculated(data[j])]

\* lines 161-163 on every row of the frame
AddCalculatedFields(frame) == [j \in 1..Len(frame) |-> frame[j] @@ Calculated(frame[j])]

\* lines 160-166 on a frame that has rows
ReturnFrame ==
    /\ pc = "anomaly_loop"
    /\ a_pos >= Len(anomaly_indices)
    /\ Len(df) > 0
    /\ df' = AddCalculatedFields(df)
    /\ returned' = Append(returned, df')
    /\ pc' = "idle"
    /\ UNCHANGED <<caller, requests, num_providers, np_stream, py_stream, np_pos,
                   py_pos, clock, num_records, i, data, anomaly_indices, a_pos,
                   anomaly_log, providers, files, error>>

\* line 161 on the frame of an empty list: pd.DataFrame([]) has no columns and
\* df['insurance_paid_amount'] raises KeyError
EmptyFrameKeyError ==
    /\ pc = "anomaly_loop"
    /\ a_pos >= Len(anomaly_indices)
    /\ Len(df) = 0
    /\ error' = "KeyError"
    /\ pc' = "raised"
    /\ UNCHANGED <<caller, requests, num_providers, np_stream, py_stream, np_pos,
                   py_pos, clock, num_records, i, data, df, anomaly_indices, a_pos,
                   anomaly_log, returned, providers, files>>

----------------------------------------------------------------------------
(* generate_provider_data (lines 168-197) and main() (lines 199-233) *)

\* line 209: main() calls generate_provider_data once the claims are returned
CallProviders ==
    /\ pc = "idle"
    /\ caller = "main"
    /\ Len(returned) = Len(requests)
    /\ pc' = "provider_loop"
    /\ i' = 0
    /\ providers' = <<>>
    /\ UNCHANGED <<caller, requests, num_providers, np_stream, py_stream, np_pos,
                   py_pos, clock, num_records, data, df, anomaly_indices, a_pos,
                   anomaly_log, returned, files, error>>

\* one iteration of `for i in range(num_providers)` (lines 181-195): after
\* random.randint (line 183) and random.choice(specialties) (line 188),
\* random.choice([True, False], p=[0.9, 0.1]) (line 191) raises TypeError, since
\* random.choice takes no keyword p; nothing is appended
GenerateProvider ==
    /\ pc = "provider_loop"
    /\ i < num_providers
    /\ py_pos' = py_pos + 2
    /\ error' = "TypeError"
    /\ pc' = "raised"
    /\ UNCHANGED <<caller, requests, num_providers, np_stream, py_stream, np_pos,
                   clock, num_records, i, data, df, anomaly_indices, a_pos,
                   anomaly_log, returned, providers, files>>

\* line 197: the loop is over, the frame of the list is returned to main()
ReturnProviders ==
    /\ pc = "provider_loop"
    /\ i >= num_providers
    /\ pc' = "save"
    /\ UNCHANGED <<caller, requests, num_providers, np_stream, py_stream, np_pos,
                   py_pos, clock, num_records, i, data, df, anomaly_indices, a_pos,
                   anomaly_log, returned, providers, files, error>>

\* lines 211-233: both frames are written, then the summary is printed
SaveDatasets ==
    /\ pc = "save"
    /\ files' = << [name |-> "healthcare_billing_data.csv", records |-> Len(returned[1])],
                   [name |-> "provider_reference_data.csv", records |-> Len(providers)] >>
    /\ pc' = "done"
    /\ UNCHANGED <<caller, requests, num_providers, np_stream, py_stream, np_pos,
                   py_pos, clock, num_records, i, data, df, anomaly_indices, a_pos,
                   anomaly_log, returned, providers, error>>

----------------------------------------------------------------------------
(* Inputs: the calls made, the stream outputs the record loop reads, the clock *)

\* calls of generate_healthcare_data one client makes in one process
MaxCalls == 2

\* largest count passed to generate_provider_data
MaxProviders == 2

\* the day of the import, in days from 2024-01-01 (2026-11-06)
ImportDay == 1040

\* outputs read by one iteration from numpy's stream, in reading order: the age
\* deviate, the procedure, the cost deviate, the insurer, the multiplier, the
\* claim status, the admission type, the length-of-stay test
AgeRaws == {-30000, -24500, 0, 30000}

ProcedureRaws == {20, 45, 90}

CostRaws == {-50000, -30029, 13}

InsurerRaws == {10, 95}

MultiplierRaws == {0, 1499}

StayRaws == {1000, 5000}

WideNpStreams ==
    { <<a, p, c, n, m, 50, 75, s>> :
        a \in AgeRaws, p \in ProcedureRaws, c \in CostRaws, n \in InsurerRaws,
        m \in MultiplierRaws, s \in StayRaws }

\* outputs read by one iteration from random's stream: the day offset, the
\* department, the provider number, the diagnosis, the procedure code and, when
\* the stay is a multi-day one, its length
WidePyStreams == { <<d, 3, 234, 1, 2345, l>> : d \in {0, 730}, l \in {6, 14} }

\* streams whose rows alternate: a routine checkup on an early date, then a
\* blood test (or a second checkup) on the last day of the window
NarrowNpStreams ==
    { <<0, 20, 13, 10, 700, 50, 75, 5000, 30000, 45, -30029, 95, 1499, 90, 20, 5000>>,
      <<-30000, 20, -50000, 95, 0, 50, 75, 1000, 30000, 20, 13, 10, 1499, 99, 95, 1000>> }

NarrowPyStreams == { <<0, 3, 234, 1, 2345, 730, 4, 8999, 11, 89999, 14, 6>> }

\* the date rolls over after this many reads of the clock (99: not in this run)
MidnightAfter == {1, 99}

\* sizes of the tables whose anomaly injection is enumerated
InjectionSizes == {20, 39, 40}

Start(who, calls, count, nps, pys, midnight) ==
    /\ pc = "idle"
    /\ caller = who
    /\ requests = calls
    /\ num_providers = count
    /\ np_stream = nps
    /\ py_stream = pys
    /\ np_pos = 0
    /\ py_pos = 0
    /\ clock = [day |-> ImportDay, reads |-> 0, midnight_after |-> midnight]
    /\ num_records = 0
    /\ i = 0
    /\ data = <<>>
    /\ df = <<>>
    /\ anomaly_indices = <<>>
    /\ a_pos = 0
    /\ anomaly_log = <<>>
    /\ returned = <<>>
    /\ providers = <<>>
    /\ files = <<>>
    /\ error = "none"

\* the module is imported (lines 14-18: both streams at position 0), and
\* a client generates one record, over every combination of the outputs
InitWide ==
    \E nps \in WideNpStreams, pys \in WidePyStreams, midnight \in MidnightAfter :
        Start("api", <<1>>, 0, nps, pys, midnight)

\* a client generates a table large enough for anomalies
InitInject ==
    \E n \in InjectionSizes, nps \in NarrowNpStreams, pys \in NarrowPyStreams :
        Start("api", <<n>>, 0, nps, pys, 99)

\* a client calls the generator several times with the same count
InitRepeat ==
    \E n \in 0..2, c \in 1..MaxCalls, nps \in NarrowNpStreams, pys \in NarrowPyStreams,
       midnight \in MidnightAfter :
        Start("api", [k \in 1..c |-> n], 0, nps, pys, midnight)

\* counts that are not positive: range(num_records) is empty
NonPositiveCounts == {-20, -1, 0}

\* a client passes a count that is not positive
InitNonPositive ==
    \E n \in NonPositiveCounts, nps \in NarrowNpStreams, pys \in NarrowPyStreams :
        Start("api", <<n>>, 0, nps, pys, 99)

\* main() runs: the counts of lines 206 and 209 (50000 and 500) are scaled down
\* to inputs; with count 0 the provider loop has no iteration
InitMain ==
    \E n \in {2, 20}, count \in 0..MaxProviders, nps \in NarrowNpStreams,
       pys \in NarrowPyStreams :
        Start("main", <<n>>, count, nps, pys, 99)

Init == InitWide \/ InitInject \/ InitRepeat \/ InitNonPositive \/ InitMain

Next ==
    \/ CallGenerate
    \/ GenerateRecord
    \/ SelectAnomalies
    \/ SelectionValueError
    \/ ApplyAnomaly
    \/ ReturnFrame
    \/ EmptyFrameKeyError
    \/ CallProviders
    \/ GenerateProvider
    \/ ReturnProviders
    \/ SaveDatasets

Spec == Init /\ [][Next]_vars

----------------------------------------------------------------------------
(* Properties *)

\* the running or last call of generate_healthcare_data has returned
Done == Len(returned) > 0 /\ pc \notin {"record_loop", "anomaly_loop"}

\* the table the last completed call returned
LastTable == returned[Len(returned)]

\* the labels selected at line 130
SelectedIndices == {anomaly_indices[j] : j \in 1..Len(anomaly_indices)}

\* the entries of anomaly_log of one archetype
Processed(type) == {j \in 1..Len(anomaly_log) : anomaly_log[j].type = type}

CoverageRate(name) ==
    (CHOOSE p \in {insurance_providers[j] : j \in 1..Len(insurance_providers)} :
        p.name = name).coverage_rate

\* C1 (as claimed): any two completed calls of generate_healthcare_data with the
\* same record count returned identical tables, whatever was drawn before each
\* call and whatever the clock showed.
C1_Determinism ==
    \A a, b \in 1..Len(returned) :
        requests[a] = requests[b] => returned[a] = returned[b]

\* C2: for n >= 20, line 130 selects exactly floor(0.05 * n) labels, pairwise
\* distinct and all in 0..n-1, and the loop of line 134 processes them in order,
\* one archetype each, each exactly once.
C2_AnomalyCount ==
    (num_records >= 20 /\ pc # "record_loop") =>
        /\ Len(anomaly_indices) = num_records \div 20
        /\ \A j \in 1..Len(anomaly_indices) : anomaly_indices[j] \in 0..(num_records - 1)
        /\ \A j, k \in 1..Len(anomaly_indices) :
               j # k => anomaly_indices[j] # anomaly_indices[k]
        /\ Len(anomaly_log) = a_pos
        /\ a_pos <= Len(anomaly_indices)
        /\ \A j \in 1..Len(anomaly_log) :
               /\ anomaly_log[j].index = anomaly_indices[j]
               /\ anomaly_log[j].type \in {anomaly_types[t] : t \in 1..Len(anomaly_types)}
        /\ (Done => a_pos = Len(anomaly_indices))

\* a table of 40 records was returned with both selected labels processed
C2_Witness ==
    /\ Done
    /\ num_records = 40
    /\ Len(anomaly_log) = 2
    /\ Len(LastTable) = 40

InFraudRange(amount) == 50000 * Dollar <= amount /\ amount <= 100000 * Dollar

\* C3 (as claimed): in the returned table every record processed with
\* fraud_indicator is named "Surgery - Major" and is billed in [50000, 100000].
C3_FraudArchetype ==
    Done =>
        \A j \in Processed("fraud_indicator") :
            LET row == Row(LastTable, anomaly_log[j].index)
            IN  /\ row.procedure_name = "Surgery - Major"
                /\ InFraudRange(row.total_billed_amount)

\* C3 (amended): in the returned table every record processed with
\* fraud_indicator is billed in [50000, 100000], and is named "Surgery - Major"
\* unless the label just before it was processed with duplicate_claim later
\* in the loop (which overwrites the name with the predecessor's).
C3_FraudArchetypeAmended ==
    Done =>
        \A j \in Processed("fraud_indicator") :
            LET idx == anomaly_log[j].index
                row == Row(LastTable, idx)
            IN  /\ InFraudRange(row.total_billed_amount)
                /\ \/ row.procedure_name = "Surgery - Major"
                   \/ \E k \in Processed("duplicate_claim") :
                          k > j /\ anomaly_log[k].index = idx - 1

\* a fraud_indicator record was returned after its predecessor was processed
\* with duplicate_claim, and carries the predecessor's name
C3_Witness ==
    /\ Done
    /\ \E j \in Processed("fraud_indicator"), k \in Processed("duplicate_claim") :
           /\ k > j
           /\ anomaly_log[k].index = anomaly_log[j].index - 1
           /\ Row(LastTable, anomaly_log[j].index).procedure_name # "Surgery - Major"
           /\ InFraudRange(Row(LastTable, anomaly_log[j].index).total_billed_amount)

\* C4 (as claimed): every record appended by the record loop stores
\* patient_responsibility = total_billed_amount - insurance_paid_amount exactly.
C4_CostIdentity ==
    \A j \in 1..Len(data) :
        data[j].patient_responsibility =
            data[j].total_billed_amount - data[j].insurance_paid_amount

\* C5 (as claimed): every returned record whose label was not selected stores
\* insurance_paid_amount <= total_billed_amount * coverage_rate of its insurer
\* (both sides in 1/100 cent).
C5_CoverageBound ==
    Done =>
        \A j \in 1..Len(LastTable) :
            (j - 1) \notin SelectedIndices =>
                (LastTable[j].insurance_paid_amount \div Cent) * Hundred
                    <= (LastTable[j].total_billed_amount \div Cent)
                           * CoverageRate(LastTable[j].insurance_provider)

\* generate_provider_data has ended, by a return or by an exception
ProvidersEnded ==
    \/ pc \in {"save", "done"}
    \/ pc = "raised" /\ caller = "main" /\ Len(returned) = Len(requests)

\* C6 (as claimed): for every count >= 1, generate_provider_data(count) ends
\* without raising, with count records of pairwise distinct provider_id.
C6_ProviderGeneration ==
    (num_providers >= 1 /\ ProvidersEnded) =>
        /\ error = "none"
        /\ Len(providers) = num_providers
        /\ \A a, b \in 1..Len(providers) :
               a # b => providers[a].provider_id # providers[b].provider_id

\* main() has ended, by its return or by an uncaught exception
MainEnded == caller = "main" /\ pc \in {"done", "raised"}

\* C7 (as claimed): every run of main() ends with both tables written, the
\* claims table with the requested rows and the providers table with the
\* requested rows, the claims having been generated first.
C7_PipelineCompletion ==
    (MainEnded /\ num_providers >= 1) =>
        /\ Len(files) = 2
        /\ files[1].records = requests[1]
        /\ files[2].records = num_providers

\* the ids of a table: all with prefix CLM, each less than the next as a string
\* (so strictly increasing in row order, and pairwise distinct)
ClaimIdsIncrease(table) ==
    /\ \A a \in 1..Len(table) : table[a].claim_id.prefix = "CLM"
    /\ \A a \in 1..(Len(table) - 1) :
           DigitsLess(table[a].claim_id.digits, table[a + 1].claim_id.digits)

\* C8: the claim_id values of the frame are pairwise distinct and strictly
\* increasing in row order, before, during and after the anomaly loop, and in
\* every returned table.
C8_ClaimIdUnique ==
    /\ ClaimIdsIncrease(data)
    /\ ClaimIdsIncrease(df)
    /\ \A c \in 1..Len(returned) : ClaimIdsIncrease(returned[c])

\* a table of 40 records was returned after a duplicate_claim overwrote a successor
C8_Witness ==
    /\ Done
    /\ Len(LastTable) = 40
    /\ \E j \in Processed("duplicate_claim") :
           /\ anomaly_log[j].index < Len(LastTable) - 1
           /\ Row(LastTable, anomaly_log[j].index + 1).patient_id
                  = Row(LastTable, anomaly_log[j].index).patient_id

\* C9: every call returns exactly num_records rows in generation order; the
\* frame has the rows of the list (num_records of them; none when the count is
\* negative) throughout the anomaly loop, also after duplicate_claim is drawn
\* for the last label.
C9_RowCount ==
    /\ pc = "anomaly_loop" => Len(df) = Len(data) /\ Len(data) = Max(0, num_records)
    /\ \A c \in 1..Len(returned) :
           /\ Len(returned[c]) = requests[c]
           /\ \A j \in 1..Len(returned[c]) :
                  returned[c][j].claim_id = FormatId("CLM", 20240000 + (j - 1), 8)

\* a table was returned after duplicate_claim was drawn for its last label
C9_Witness ==
    /\ Done
    /\ num_records >= 20
    /\ \E j \in Processed("duplicate_claim") : anomaly_log[j].index = num_records - 1

\* C10: every record, in the list and in every returned table, has an integer
\* patient_age with 1 <= patient_age <= 95.
C10_AgeRange ==
    /\ \A j \in 1..Len(data) : data[j].patient_age \in 1..95
    /\ \A c \in 1..Len(returned) :
           \A j \in 1..Len(returned[c]) : returned[c][j].patient_age \in 1..95

\* records were returned whose normal draw was 45 - 3 * 18 = -9 (stored as 1)
\* and 45 + 3 * 18 = 99 (stored as 95)
C10_Witness ==
    /\ Done
    /\ \E j \in 1..Len(LastTable) :
           /\ LastTable[j].patient_age = 1
           /\ Normal(45, 18, np_stream[1]) < 0
    /\ \E c \in 1..Len(returned) : \E j \in 1..Len(returned[c]) :
           returned[c][j].patient_age = 95

\* C11: every row of every returned table has length_of_stay in 1..15, and
\* no step of the anomaly loop changes the length_of_stay the record loop
\* stored, for any row.
C11_LengthOfStay ==
    /\ \A c \in 1..Len(returned) :
           \A j \in 1..Len(returned[c]) : returned[c][j].length_of_stay \in 1..15
    /\ pc = "anomaly_loop" =>
           \A j \in 1..Len(df) : df[j].length_of_stay = data[j].length_of_stay
    /\ Done =>
           \A j \in 1..Len(LastTable) : LastTable[j].length_of_stay = data[j].length_of_stay

\* a table was returned in which a record with a multi-day stay had its billed
\* amount multiplied by billing_error
C11_Witness ==
    /\ Done
    /\ \E j \in Processed("billing_error") :
           LET row == Row(LastTable, anomaly_log[j].index)
           IN  /\ row.length_of_stay > 1
               /\ row.total_billed_amount > data[anomaly_log[j].index + 1].total_billed_amount

\* C12: every record the record loop appended has total_billed_amount >= 50,
\* whatever the normal cost draw was, and so has every row of the frame when
\* the anomaly loop starts.
C12_BilledFloor ==
    /\ \A j \in 1..Len(data) : data[j].total_billed_amount >= 50 * Dollar
    /\ (pc = "anomaly_loop" /\ a_pos = 0) =>
           \A j \in 1..Len(df) : df[j].total_billed_amount >= 50 * Dollar

\* the first record was appended after a negative cost draw, and stores 50.00
C12_Witness ==
    /\ Len(data) >= 1
    /\ LET procedure_info == WeightedChoice(procedures, np_stream[2])
       IN  Normal(procedure_info.base_cost, procedure_info.variance, np_stream[3]) < 0
    /\ data[1].total_billed_amount = 50 * Dollar

\* C13: in the returned table, every record whose label was not selected has
\* insurance_paid_amount <= total_billed_amount and payment_rate <= 1, also
\* when it is the successor a duplicate_claim wrote to.
C13_PaidWithinBilled ==
    Done =>
        \A j \in 1..Len(LastTable) :
            (j - 1) \notin SelectedIndices =>
                /\ LastTable[j].insurance_paid_amount <= LastTable[j].total_billed_amount
                /\ LastTable[j].payment_rate.num <= LastTable[j].payment_rate.den

\* a table was returned in which duplicate_claim overwrote the patient of a
\* successor that was not itself selected
C13_Witness ==
    /\ Done
    /\ \E j \in Processed("duplicate_claim") :
           LET idx == anomaly_log[j].index
           IN  /\ idx < Len(LastTable) - 1
               /\ (idx + 1) \notin SelectedIndices
               /\ Row(LastTable, idx + 1).patient_id = Row(LastTable, idx).patient_id
               /\ Row(LastTable, idx + 1).patient_id # data[idx + 2].patient_id

\* C14: in every returned table, each row's payment_rate, cost_per_day and
\* month_year are computed from that row's final insurance_paid_amount,
\* total_billed_amount, length_of_stay and service_date; while the record loop
\* or the anomaly loop runs, no row of the frame has a derived field.
C14_DerivedAfterInjection ==
    /\ \A c \in 1..Len(returned) :
           \A j \in 1..Len(returned[c]) :
               LET row == returned[c][j]
               IN  /\ row.payment_rate
                          = Divide(row.insurance_paid_amount, row.total_billed_amount)
                   /\ row.cost_per_day
                          = Divide(row.total_billed_amount, row.length_of_stay * Dollar)
                   /\ row.month_year = MonthYear(row.service_date)
    /\ pc \in {"record_loop", "anomaly_loop"} =>
           \A j \in 1..Len(df) :
               {"payment_rate", "cost_per_day", "month_year"} \cap DOMAIN df[j] = {}

\* a table was returned in which billing_error changed a billed amount and
\* duplicate_claim moved a successor's service_date to another month
C14_Witness ==
    /\ Done
    /\ \E j \in Processed("billing_error") :
           LET idx == anomaly_log[j].index
           IN  /\ Row(LastTable, idx).total_billed_amount # data[idx + 1].total_billed_amount
               /\ Row(LastTable, idx).payment_rate
                      # Divide(data[idx + 1].insurance_paid_amount,
                               data[idx + 1].total_billed_amount)
    /\ \E j \in Processed("duplicate_claim") :
           LET idx == anomaly_log[j].index
           IN  /\ idx < Len(LastTable) - 1
               /\ Row(LastTable, idx + 1).month_year # MonthYear(data[idx + 2].service_date)

\* an amount in ticks that is a whole number of cents
TwoDecimals(amount) == amount % Cent = 0

\* C15 (as claimed): in every returned table, total_billed_amount,
\* insurance_paid_amount and patient_responsibility of every row are multiples
\* of 0.01, also for rows whose billed amount an anomaly changed.
C15_TwoDecimalOutput ==
    \A c \in 1..Len(returned) :
        \A j \in 1..Len(returned[c]) :
            /\ TwoDecimals(returned[c][j].total_billed_amount)
            /\ TwoDecimals(returned[c][j].insurance_paid_amount)
            /\ TwoDecimals(returned[c][j].patient_responsibility)

\* the call that is running, or that raised
CurrentCount == requests[Len(returned) + 1]

\* C16 (as claimed): a call of generate_healthcare_data with num_records <= 0
\* returns no table and ends with a parameter error, not with an error raised
\* further down the pipeline.
C16_ParameterError ==
    /\ \A c \in 1..Len(returned) : requests[c] > 0
    /\ (pc = "raised" /\ caller = "api" /\ CurrentCount <= 0) => error = "ParameterError"

RECURSIVE DaysBeforeYear(_)
DaysBeforeYear(y) == IF y <= 2024 THEN 0 ELSE DaysInYear(y - 1) + DaysBeforeYear(y - 1)

RECURSIVE DaysBeforeMonth(_, _)
DaysBeforeMonth(y, m) ==
    IF m <= 1 THEN 0 ELSE DaysInMonth(y, m - 1) + DaysBeforeMonth(y, m - 1)

\* the day a stored service_date denotes, in days from 2024-01-01
DayNumber(date) ==
    DaysBeforeYear(date.year) + DaysBeforeMonth(date.year, date.month) + date.day - 1

\* C17 (as claimed): every returned table has a generation time T (one of the
\* dates the clock showed) such that every row's service_date d satisfies
\* T - 730 days <= d <= T, also the rows duplicate_claim wrote a date to.
C17_ServiceDateWindow ==
    \A c \in 1..Len(returned) :
        \E T \in clock.day..Today :
            \A j \in 1..Len(returned[c]) :
                LET d == DayNumber(returned[c][j].service_date)
                IN  T - WindowDays <= d /\ d <= T

NonNegativeMoney(row) ==
    /\ row.total_billed_amount >= 0
    /\ row.insurance_paid_amount >= 0
    /\ row.patient_responsibility >= 0

\* C18: total_billed_amount, insurance_paid_amount and patient_responsibility
\* of every record are >= 0: in the list the record loop builds, in the frame
\* during the anomaly loop, and in every returned table.
C18_NonNegativeMoney ==
    /\ \A j \in 1..Len(data) : NonNegativeMoney(data[j])
    /\ \A j \in 1..Len(df) : NonNegativeMoney(df[j])
    /\ \A c \in 1..Len(returned) :
           \A j \in 1..Len(returned[c]) : NonNegativeMoney(returned[c][j])

\* a table was returned that holds a record floored at 50.00 after a negative
\* cost draw and a record whose billed amount unusual_cost multiplied
C18_Witness ==
    /\ Done
    /\ \E j \in 1..Len(LastTable) :
           /\ LastTable[j].total_billed_amount = 50 * Dollar
           /\ LastTable[j].patient_responsibility > 0
    /\ \E j \in Processed("unusual_cost") :
           Row(LastTable, anomaly_log[j].index).total_billed_amount
               > data[anomaly_log[j].index + 1].total_billed_amount

\* C19: a step of the anomaly loop that processes duplicate_claim for the
\* label idx < n - 1 makes patient_id, procedure_name and service_date of
\* record idx + 1 equal to the current values of record idx and changes no
\* other field of it and no other record; for idx = n - 1 it changes nothing.
C19_DuplicateClaimStep ==
    [][ (/\ pc = "anomaly_loop"
         /\ a_pos' = a_pos + 1
         /\ anomaly_log'[a_pos + 1].type = "duplicate_claim") =>
            LET idx == anomaly_indices[a_pos + 1]
            IN  IF idx < num_records - 1
                THEN /\ Len(df') = Len(df)
                     /\ df'[idx + 2] =
                            [df[idx + 2] EXCEPT !.patient_id = df[idx + 1].patient_id,
                                                !.procedure_name = df[idx + 1].procedure_name,
                                                !.service_date = df[idx + 1].service_date]
                     /\ \A j \in 1..Len(df) : j # idx + 2 => df'[j] = df[j]
                ELSE df' = df ]_vars

\* the anomaly loop has processed duplicate_claim both for the last label, with
\* the frame as the list built it, and for an earlier label, whose successor
\* now carries its patient_id, procedure_name and service_date
C19_Witness ==
    /\ pc = "anomaly_loop"
    /\ \E j, k \in Processed("duplicate_claim") :
           LET idx == anomaly_log[j].index
           IN  /\ anomaly_log[k].index = num_records - 1
               /\ idx < num_records - 1
               /\ df[idx + 2].patient_id = df[idx + 1].patient_id
               /\ df[idx + 2].procedure_name = df[idx + 1].procedure_name
               /\ df[idx + 2].service_date = df[idx + 1].service_date
               /\ df[idx + 2].procedure_name # data[idx + 2].procedure_name
               /\ df[idx + 2].service_date # data[idx + 2].service_date
               /\ df[idx + 2].total_billed_amount = data[idx + 2].total_billed_amount
               /\ df[num_records] = data[num_records]

\* an entry of anomaly_log after entry j with the given archetype and label
ProcessedLater(j, type, idx) ==
    \E k \in Processed(type) : k > j /\ anomaly_log[k].index = idx

\* C20 (as claimed): in the returned table, for every label idx < n - 1
\* processed with duplicate_claim, rows idx and idx + 1 have equal patient_id,
\* procedure_name and service_date, whatever the other selected labels, their
\* archetypes and the processing order.
C20_DuplicatePair ==
    Done =>
        \A j \in Processed("duplicate_claim") :
            LET idx == anomaly_log[j].index
            IN  idx < Len(LastTable) - 1 =>
                    /\ Row(LastTable, idx + 1).patient_id = Row(LastTable, idx).patient_id
                    /\ Row(LastTable, idx + 1).procedure_name = Row(LastTable, idx).procedure_name
                    /\ Row(LastTable, idx + 1).service_date = Row(LastTable, idx).service_date

\* C20 (amended): in the returned table, for every label idx < n - 1 processed
\* with duplicate_claim, rows idx and idx + 1 have equal patient_id and
\* service_date unless idx - 1 was processed with duplicate_claim later in the
\* loop, and equal procedure_name unless, later in the loop, idx - 1 was
\* processed with duplicate_claim or idx + 1 with fraud_indicator.
C20_DuplicatePairAmended ==
    Done =>
        \A j \in Processed("duplicate_claim") :
            LET idx == anomaly_log[j].index
                overwritten == ProcessedLater(j, "duplicate_claim", idx - 1)
                renamed == ProcessedLater(j, "fraud_indicator", idx + 1)
            IN  idx < Len(LastTable) - 1 =>
                    /\ overwritten \/
                           /\ Row(LastTable, idx + 1).patient_id = Row(LastTable, idx).patient_id
                           /\ Row(LastTable, idx + 1).service_date = Row(LastTable, idx).service_date
                    /\ overwritten \/ renamed \/
                           Row(LastTable, idx + 1).procedure_name
                               = Row(LastTable, idx).procedure_name

\* a table was returned in which idx + 1 was processed with fraud_indicator
\* first and idx with duplicate_claim afterwards: the pair is equal in the
\* three fields, and the successor lost the name fraud_indicator gave it
C20_Witness ==
    /\ Done
    /\ \E j \in Processed("duplicate_claim"), k \in Processed("fraud_indicator") :
           LET idx == anomaly_log[j].index
           IN  /\ k < j
               /\ anomaly_log[k].index = idx + 1
               /\ Row(LastTable, idx + 1).patient_id = Row(LastTable, idx).patient_id
               /\ Row(LastTable, idx + 1).procedure_name = Row(LastTable, idx).procedure_name
               /\ Row(LastTable, idx + 1).service_date = Row(LastTable, idx).service_date
               /\ Row(LastTable, idx + 1).procedure_name # "Surgery - Major"
               /\ Row(LastTable, idx + 1).service_date # data[idx + 2].service_date

\* the step of the anomaly loop that processes the next label with `type`
StepOf(type) ==
    /\ pc = "anomaly_loop"
    /\ a_pos' = a_pos + 1
    /\ anomaly_log'[a_pos + 1].type = type

\* C21: a step that processes billing_error for the label idx multiplies
\* total_billed_amount of record idx by a factor of [2.0, 5.0] and changes no
\* other field of it and no other record, so that afterwards its
\* patient_responsibility is not total_billed_amount - insurance_paid_amount.
C21_BillingErrorStep ==
    [][ StepOf("billing_error") =>
            LET idx == anomaly_indices[a_pos + 1]
                old == df[idx + 1].total_billed_amount
                new == df'[idx + 1].total_billed_amount
            IN  /\ 2 * old <= new
                /\ new <= 5 * old
                /\ Len(df') = Len(df)
                /\ df'[idx + 1] = [df[idx + 1] EXCEPT !.total_billed_amount = new]
                /\ \A j \in 1..Len(df) : j # idx + 1 => df'[j] = df[j]
                /\ df'[idx + 1].patient_responsibility
                       # new - df'[idx + 1].insurance_paid_amount ]_vars

\* the loop has just processed billing_error with the factor 3.99: the billed
\* amount of the record is 3.99 times the stored one, its paid amount and
\* responsibility are the stored ones
C21_Witness ==
    /\ pc = "anomaly_loop"
    /\ a_pos >= 1
    /\ LET entry == anomaly_log[a_pos]
           row == Row(df, entry.index)
           was == data[entry.index + 1]
       IN  /\ entry.type = "billing_error"
           /\ Uniform(200, 500, entry.raw) = 399
           /\ row.total_billed_amount = Scale(was.total_billed_amount, 399)
           /\ row.insurance_paid_amount = was.insurance_paid_amount
           /\ row.patient_responsibility = was.patient_responsibility

\* C22: a step that processes unusual_cost for the label idx multiplies
\* total_billed_amount of record idx by a factor of [10.0, 20.0], and changes
\* nothing else, exactly when the record's procedure_name at that time contains
\* "Routine"; otherwise the frame is unchanged.  Either way the label is one of
\* the floor(0.05 * n) selected ones and the loop moves to the next one.
C22_UnusualCostStep ==
    [][ StepOf("unusual_cost") =>
            LET idx == anomaly_indices[a_pos + 1]
                old == df[idx + 1].total_billed_amount
                new == df'[idx + 1].total_billed_amount
            IN  /\ anomaly_indices' = anomaly_indices
                /\ Len(anomaly_indices) = num_records \div 20
                /\ anomaly_log'[a_pos + 1].index = idx
                /\ IF df[idx + 1].procedure_name = "Routine Checkup"
                   THEN /\ 10 * old <= new
                        /\ new <= 20 * old
                        /\ Len(df') = Len(df)
                        /\ df'[idx + 1] = [df[idx + 1] EXCEPT !.total_billed_amount = new]
                        /\ \A j \in 1..Len(df) : j # idx + 1 => df'[j] = df[j]
                   ELSE df' = df ]_vars

\* the loop has processed unusual_cost for two labels of a table of 40: a
\* routine checkup, now billed at least ten times the stored amount, and a
\* record of another procedure, still as the list built it
C22_Witness ==
    /\ pc = "anomaly_loop"
    /\ num_records = 40
    /\ \E j, k \in Processed("unusual_cost") :
           LET routine == anomaly_log[j].index
               other == anomaly_log[k].index
           IN  /\ Row(df, routine).procedure_name = "Routine Checkup"
               /\ Row(df, routine).total_billed_amount
                      >= 10 * data[routine + 1].total_billed_amount
               /\ Row(df, other).procedure_name # "Routine Checkup"
               /\ Row(df, other) = data[other + 1]

\* the first record of the first call: it reads both streams from their start
FirstRecordBuilt == Len(returned) = 0 /\ Len(data) >= 1

\* C23 (as claimed): an iteration of the record loop takes its draws in the
\* order of spec section 4.4.  From numpy's stream: age, procedure, insurer,
\* billed amount, reimbursement multiplier, claim status, admission type,
\* length-of-stay test; from random's stream: service date, department,
\* provider id, diagnosis code.
C23_DrawOrder ==
    FirstRecordBuilt =>
        LET procedure_info == WeightedChoice(procedures, np_stream[2])
            insurance      == WeightedChoice(insurance_providers, np_stream[3])
            total_billed   == BaseCost(procedure_info, np_stream[4])
            insurance_paid == InsurancePaid(total_billed, insurance.coverage_rate,
                                            Multiplier(np_stream[5]))
        IN  /\ data[1].patient_age = PatientAge(np_stream[1])
            /\ data[1].procedure_name = procedure_info.name
            /\ data[1].insurance_provider = insurance.name
            /\ data[1].total_billed_amount = StoredBilled(total_billed)
            /\ data[1].insurance_paid_amount = StoredPaid(insurance_paid)
            /\ data[1].service_date = Strftime(ServiceDay(clock.day, py_stream[1]))
            /\ data[1].department = UniformChoice(departments, py_stream[2])
            /\ data[1].provider_id = FormatId("DR", RandInt(1000, 9999, py_stream[3]), 0)
            /\ data[1].primary_diagnosis = UniformChoice(diagnosis_codes, py_stream[4])
            /\ data[1].claim_status = WeightedChoice(claim_statuses, np_stream[6]).name
            /\ data[1].admission_type = WeightedChoice(admission_types, np_stream[7]).name
            /\ data[1].length_of_stay > 1 => MultiDay(np_stream[8])

\* generate_provider_data is about to take its first draw
ProviderDrawsStart == pc = "provider_loop" /\ i = 0 /\ num_providers >= 1

\* C24 (as claimed): the stream generate_provider_data draws from was not
\* advanced by the claim generator: its first draw reads the first output after
\* seeding, whatever number of claims was generated before in the same run.
C24_ProviderStreamIndependence ==
    ProviderDrawsStart => py_pos = 0

----------------------------------------------------------------------------
(* The injection as a pure transform (spec.md, refactoring notes): each
   selected label's mutation is computed from the original records, then the
   mutations are applied *)

NoWrite == [f \in {} |-> 0]

\* (original, archetype, rng) -> the fields written and the row they are written to
PureMutation(original, entry) ==
    LET idx == entry.index
        rec == original[idx + 1]
    IN  CASE entry.type = "billing_error" ->
                 [row |-> idx + 1,
                  fields |-> [total_billed_amount |->
                                 Scale(rec.total_billed_amount, Uniform(200, 500, entry.raw))]]
          [] entry.type = "duplicate_claim" ->
                 IF idx < Len(original) - 1
                 THEN [row |-> idx + 2,
                       fields |-> [patient_id |-> rec.patient_id,
                                   procedure_name |-> rec.procedure_name,
                                   service_date |-> rec.service_date]]
                 ELSE [row |-> idx + 1, fields |-> NoWrite]
          [] entry.type = "unusual_cost" ->
                 IF ContainsRoutine(rec.procedure_name)
                 THEN [row |-> idx + 1,
                       fields |-> [total_billed_amount |->
                                      Scale(rec.total_billed_amount,
                                            Uniform(1000, 2000, entry.raw))]]
                 ELSE [row |-> idx + 1, fields |-> NoWrite]
          [] entry.type = "fraud_indicator" ->
                 [row |-> idx + 1,
                  fields |-> [procedure_name |-> "Surgery - Major",
                              total_billed_amount |->
                                  Uniform(50000 * Dollar, 100000 * Dollar, entry.raw)]]

ApplyMutation(table, mutation) ==
    [j \in 1..Len(table) |->
        IF j # mutation.row THEN table[j]
        ELSE [f \in DOMAIN table[j] |->
                 IF f \in DOMAIN mutation.fields THEN mutation.fields[f]
                 ELSE table[j][f]]]

\* the final sequence: the mutations of the entries, in their order, applied to
\* the original records
RECURSIVE PureInjection(_, _, _)
PureInjection(table, original, entries) ==
    IF entries = <<>> THEN table
    ELSE PureInjection(ApplyMutation(table, PureMutation(original, Head(entries))),
                       original, Tail(entries))

\* the loop of line 134 has processed every selected label
LoopEnded == pc = "anomaly_loop" /\ a_pos = Len(anomaly_indices)

\* C26 (as claimed): for every table, selection, archetype assignment and
\* processing order, the frame the in-place loop leaves equals the table built
\* by applying to the original records the mutations computed from them.
C26_PureTransform ==
    LoopEnded => df = PureInjection(data, data, anomaly_log)

\* a label was processed with duplicate_claim and its successor later in the
\* loop with duplicate_claim or unusual_cost, which read the copied values
Aliased ==
    \E j \in Processed("duplicate_claim") :
        \/ ProcessedLater(j, "duplicate_claim", anomaly_log[j].index + 1)
        \/ ProcessedLater(j, "unusual_cost", anomaly_log[j].index + 1)

\* C26 (amended): the frame the in-place loop leaves equals the table built by
\* the pure transform unless the loop processed duplicate_claim for a label idx
\* and, later, duplicate_claim or unusual_cost for idx + 1 (a step that reads
\* the values the first one copied).
C26_PureTransformAmended ==
    (LoopEnded /\ ~Aliased) => df = PureInjection(data, data, anomaly_log)

\* the loop ended after duplicate_claim for idx and then fraud_indicator for
\* idx + 1: both wrote to row idx + 1, and the frame is the pure transform's
C26_Witness ==
    /\ LoopEnded
    /\ \E j \in Processed("duplicate_claim") :
           /\ ProcessedLater(j, "fraud_indicator", anomaly_log[j].index + 1)
           /\ Row(df, anomaly_log[j].index + 1).patient_id
                  = Row(data, anomaly_log[j].index).patient_id
           /\ Row(df, anomaly_log[j].index + 1).procedure_name = "Surgery - Major"
    /\ df # data
    /\ df = PureInjection(data, data, anomaly_log)

\* the rows (by label) of a table that differ, in a field the record loop
\* stored, from the record the loop appended
ChangedRows(table) ==
    {idx \in 0..(Len(table) - 1) :
        \E f \in DOMAIN data[idx + 1] : Row(table, idx)[f] # data[idx + 1][f]}

EffectiveWithinSelected(table) ==
    /\ Cardinality(ChangedRows(table)) <= num_records \div 20
    /\ \A idx \in ChangedRows(table) :
           idx \in SelectedIndices \/ (idx - 1) \in SelectedIndices

\* C27: during and after injection, at most floor(0.05 * n) rows differ from
\* their pre-injection values, and each of them is a selected label or the
\* successor of one; every other row is as the record loop built it.
C27_EffectiveMutationBound ==
    /\ (pc = "anomaly_loop" /\ num_records >= 0) => EffectiveWithinSelected(df)
    /\ Done => EffectiveWithinSelected(LastTable)

\* a table of 40 was returned with two rows changed, one of them a successor
\* that was not itself selected
C27_Witness ==
    /\ Done
    /\ num_records = 40
    /\ Cardinality(ChangedRows(LastTable)) = 2
    /\ \E idx \in ChangedRows(LastTable) :
           idx \notin SelectedIndices /\ (idx - 1) \in SelectedIndices

FrozenFields ==
    {"claim_id", "patient_age", "procedure_code", "primary_diagnosis", "department",
     "provider_id", "insurance_provider", "insurance_paid_amount",
     "patient_responsibility", "claim_status", "admission_type", "length_of_stay"}

MutableFields == {"patient_id", "procedure_name", "service_date", "total_billed_amount"}

\* every row of the table has the stored fields, with the frozen ones as the
\* record loop stored them
FrozenAsStored(table) ==
    /\ Len(table) = Len(data)
    /\ \A j \in 1..Len(table) :
           /\ DOMAIN data[j] = FrozenFields \cup MutableFields
           /\ \A f \in FrozenFields : table[j][f] = data[j][f]

\* C28: no sequence of anomaly steps changes claim_id, patient_age,
\* procedure_code, primary_diagnosis, department, provider_id,
\* insurance_provider, insurance_paid_amount, patient_responsibility,
\* claim_status, admission_type or length_of_stay of any record; only
\* patient_id, procedure_name, service_date and total_billed_amount can differ
\* from the values stored at creation.
C28_InjectionFrame ==
    /\ pc = "anomaly_loop" => FrozenAsStored(df)
    /\ Done => FrozenAsStored(LastTable)

\* a table was returned in which each of the four other fields differs from
\* its stored value in some row
C28_Witness ==
    /\ Done
    /\ \A f \in MutableFields :
           \E j \in 1..Len(LastTable) : LastTable[j][f] # data[j][f]

\* no two selected labels differ by exactly 1
NoAdjacentSelected == \A a, b \in SelectedIndices : a - b # 1

\* what the loop has processed so far, without its order
ProcessedSet == {anomaly_log[k] : k \in 1..Len(anomaly_log)}

\* the entries whose mutation, computed from the stored records, writes to row j
WritersOf(j) == {entry \in ProcessedSet : PureMutation(data, entry).row = j}

\* the table determined by the set of processed (label, archetype, factor)
\* entries alone: every row written by an entry carries that entry's mutation
OrderFreeTable ==
    [j \in 1..Len(data) |->
        IF WritersOf(j) = {} THEN data[j]
        ELSE ApplyMutation(data, PureMutation(data, CHOOSE entry \in WritersOf(j) : TRUE))[j]]

\* C29: when no two selected labels differ by exactly 1, the frame depends only
\* on which labels were processed with which archetype and factor, not on the
\* order in which the loop processed them: no row has two writers, and the
\* frame is the table the set of processed entries determines.
C29_OrderIndependence ==
    (pc = "anomaly_loop" /\ NoAdjacentSelected) =>
        /\ \A j \in 1..Len(data) : Cardinality(WritersOf(j)) <= 1
        /\ df = OrderFreeTable

\* the loop ended on a table of 40 whose two selected labels are not adjacent
\* and were processed in descending order, the first with billing_error and
\* the second with duplicate_claim, and two rows were changed
C29_Witness ==
    /\ LoopEnded
    /\ num_records = 40
    /\ NoAdjacentSelected
    /\ anomaly_indices[1] > anomaly_indices[2]
    /\ anomaly_log[2].type = "duplicate_claim"
    /\ anomaly_log[1].type = "billing_error"
    /\ Cardinality(ChangedRows(df)) = 2

DivisorsPositive(row) == row.total_billed_amount >= 50 * Dollar /\ row.length_of_stay >= 1

\* a quotient of lines 161-162 that is a number (no zero divisor) and not negative
ProperQuotient(q) == q.den > 0 /\ q.num >= 0

\* C30: after any sequence of anomaly steps every row has total_billed_amount
\* >= 50 and length_of_stay >= 1, so payment_rate and cost_per_day of every
\* returned row are quotients by a non-zero divisor and are not negative.
C30_NonZeroDivisors ==
    /\ \A j \in 1..Len(df) : DivisorsPositive(df[j])
    /\ \A c \in 1..Len(returned) :
           \A j \in 1..Len(returned[c]) :
               /\ DivisorsPositive(returned[c][j])
               /\ ProperQuotient(returned[c][j].payment_rate)
               /\ ProperQuotient(returned[c][j].cost_per_day)

\* a table was returned in which a record billed at the floor of 50.00 was
\* doubled by billing_error (factor 2.0, the low end), another is still at the
\* floor, and a stay of several days divides a billed amount
C30_Witness ==
    /\ Done
    /\ \E j \in Processed("billing_error") :
           LET idx == anomaly_log[j].index
           IN  /\ data[idx + 1].total_billed_amount = 50 * Dollar
               /\ Row(LastTable, idx).total_billed_amount = 100 * Dollar
    /\ \E j \in 1..Len(LastTable) :
           /\ LastTable[j].total_billed_amount = 50 * Dollar
           /\ LastTable[j].length_of_stay > 1
           /\ LastTable[j].cost_per_day.den > 1

====
